---- MODULE Spec2Model ----
(***************************************************************************)
(* Model of ukol2.py: the great-circle distance of Coordinate.distance,    *)
(* the two input parsers parse_coordinates and parse_cities, and the       *)
(* nearest-city pass write_closest_cities.                                  *)
(*                                                                         *)
(* Python floats are modelled as fixed-point integers with eight decimal   *)
(* places (a float v is the integer nearest to v * Scale).                 *)
(* Distances are returned in metres, i.e. the kilometre result of the      *)
(* source times 1000.                                                      *)
(***************************************************************************)
EXTENDS Integers, Sequences, FiniteSets, TLC

VARIABLES
    coordinates,    \* the list parse_coordinates builds, write_closest_cities reads
    cities,         \* the list parse_cities builds, write_closest_cities reads
    dpc, c1, c2, a, ret,              \* one call of Coordinate.distance
    rpc, file, reader, rret, rerr,    \* one call of parse_coordinates
    gpc, lines, gi, lookups, printed, gret,
                                      \* one call of parse_cities
    wpc, wi, closest_city, written, werr
                                      \* one call of write_closest_cities

distVars  == <<dpc, c1, c2, a, ret>>
coordVars == <<rpc, file, reader, rret, rerr>>
cityVars  == <<gpc, lines, gi, lookups, printed, gret>>
writeVars == <<wpc, wi, closest_city, written, werr>>
vars == <<coordinates, cities, distVars, coordVars, cityVars, writeVars>>

----------------------------------------------------------------------------
(* Fixed-point arithmetic standing for Python's float                      *)

Scale == 10^8
Half  == 10^4
PiFix == 314159265
HalfPi == PiFix \div 2
EARTH_RADIUS == 6371

Abs(x) == IF x < 0 THEN -x ELSE x
Sgn(x) == IF x < 0 THEN -1 ELSE 1

\* x * y = MulHigh * Scale + MulLow for non-negative fixed-point x and y,
\* computed in halves so that no intermediate exceeds 32 bits
MulLowPart(x, y) ==
    LET t == (x \div Half) * (y % Half) + (x % Half) * (y \div Half)
    IN  (t % Half) * Half + (x % Half) * (y % Half)

MulHigh(x, y) ==
    LET t == (x \div Half) * (y % Half) + (x % Half) * (y \div Half)
    IN  (x \div Half) * (y \div Half) + t \div Half
          + MulLowPart(x, y) \div Scale

MulLow(x, y) == MulLowPart(x, y) % Scale

\* the float product, rounded to nearest
MulAbs(x, y) == MulHigh(x, y) + (IF 2 * MulLow(x, y) >= Scale THEN 1 ELSE 0)

\* x * y <= z exactly, z a fixed-point value
MulLeq(x, y, z) ==
    MulHigh(x, y) < z \/ (MulHigh(x, y) = z /\ MulLow(x, y) = 0)

Mul(x, y) == Sgn(x) * Sgn(y) * MulAbs(Abs(x), Abs(y))

\* x / k for an integer k > 0, truncated towards zero
DivInt(x, k) == Sgn(x) * (Abs(x) \div k)

RECURSIVE DivBisect(_, _, _, _)
DivBisect(y, x, lo, hi) ==
    IF hi - lo <= 1 THEN lo
    ELSE LET mid == (lo + hi) \div 2
         IN  IF MulLeq(mid, x, y) THEN DivBisect(y, x, mid, hi)
                                 ELSE DivBisect(y, x, lo, mid)

\* y / x for 0 <= y <= x, x > 0
Div(y, x) == IF y = x THEN Scale ELSE DivBisect(y, x, 0, Scale)

\* math.radians on a whole number of degrees
radians(deg) ==
    LET d == Abs(deg)
    IN  Sgn(deg) * (d * (PiFix \div 180) + (d * (PiFix % 180)) \div 180)

\* sin and cos never leave [-1, 1]
Clamp(v) == IF v > Scale THEN Scale ELSE IF v < - Scale THEN - Scale ELSE v

RECURSIVE SinSeries(_, _, _, _)
SinSeries(x2, term, n, acc) ==
    IF term = 0 \/ n > 19 THEN acc
    ELSE LET next == - DivInt(Mul(term, x2), (n + 1) * (n + 2))
         IN  SinSeries(x2, next, n + 2, acc + next)

\* math.sin for |x| <= 2 * pi
RECURSIVE sin(_)
sin(x) ==
    IF x > HalfPi THEN sin(PiFix - x)
    ELSE IF x < - HalfPi THEN sin(- PiFix - x)
    ELSE Clamp(SinSeries(Mul(x, x), x, 1, x))

RECURSIVE CosSeries(_, _, _, _)
CosSeries(x2, term, n, acc) ==
    IF term = 0 \/ n > 20 THEN acc
    ELSE LET next == - DivInt(Mul(term, x2), (n + 1) * (n + 2))
         IN  CosSeries(x2, next, n + 2, acc + next)

\* math.cos for |x| <= pi / 2
cos(x) == Clamp(CosSeries(Mul(x, x), Scale, 0, Scale))

RECURSIVE SqrtBisect(_, _, _)
SqrtBisect(x, lo, hi) ==
    IF hi - lo <= 1 THEN lo
    ELSE LET mid == (lo + hi) \div 2
         IN  IF MulLeq(mid, mid, x) THEN SqrtBisect(x, mid, hi)
                                   ELSE SqrtBisect(x, lo, mid)

\* math.sqrt: defined on x >= 0 only (ValueError: math domain error below 0)
sqrtDefined(x) == x >= 0
sqrt(x) == SqrtBisect(x, 0, 2 * Scale)

RECURSIVE AtanSeries(_, _, _, _)
AtanSeries(t2, power, n, acc) ==
    IF power = 0 \/ n > 25 THEN acc
    ELSE LET next == - Mul(power, t2)
         IN  AtanSeries(t2, next, n + 2, acc + DivInt(next, n + 2))

\* t / (1 + sqrt(1 + t^2)): tan of half the angle whose tan is t
HalfTan(t) == Div(t, Scale + sqrt(Scale + Mul(t, t)))

\* atan for 0 <= t <= 1
Atan(t) ==
    LET r == HalfTan(HalfTan(t))
    IN  4 * AtanSeries(Mul(r, r), r, 1, r)

\* math.atan2 on the first quadrant (both arguments are square roots)
atan2(y, x) ==
    IF y = 0 THEN 0
    ELSE IF x = 0 THEN HalfPi
    ELSE IF y <= x THEN Atan(Div(y, x))
    ELSE HalfPi - Atan(Div(x, y))

----------------------------------------------------------------------------
(* class Coordinate, class City                                            *)

Coordinate(latitude, longitude) ==
    [latitude |-> latitude, longitude |-> longitude]

City(name, latitude, longitude) ==
    [name |-> name, latitude |-> latitude, longitude |-> longitude]

\* the haversine term with the latitudes added instead of subtracted
HavA_AddLatitudes(p1, p2) ==
    LET dlat == radians(p2.latitude + p1.latitude)
        dlon == radians(p2.longitude - p1.longitude)
        slat == sin(DivInt(dlat, 2))
        slon == sin(DivInt(dlon, 2))
    IN  Mul(slat, slat)
          + Mul(Mul(Mul(radians(p1.latitude), cos(radians(p2.latitude))),
                    slon), slon)

\* lines 19-23: the haversine term a as the source computes it, with
\* radians(c1.latitude), not its cosine, in the cross term
HavA(p1, p2) ==
    LET dlat == radians(p2.latitude - p1.latitude)
        dlon == radians(p2.longitude - p1.longitude)
        slat == sin(DivInt(dlat, 2))
        slon == sin(DivInt(dlon, 2))
    IN  Mul(slat, slat)
          + Mul(Mul(Mul(radians(p1.latitude), cos(radians(p2.latitude))),
                    slon), slon)

\* EARTH_RADIUS * c, in metres
ToMetres(c) ==
    EARTH_RADIUS * (c \div 100000) + (EARTH_RADIUS * (c % 100000)) \div 100000

\* Coordinate.distance: raised is the ValueError of sqrt(a) or sqrt(1 - a)
distance(p1, p2) ==
    LET av == HavA(p1, p2)
    IN  IF sqrtDefined(av) /\ sqrtDefined(Scale - av)
        THEN [raised |-> FALSE, a |-> av,
              value |-> ToMetres(2 * atan2(sqrt(av), sqrt(Scale - av)))]
        ELSE [raised |-> TRUE, a |-> av, value |-> 0]

----------------------------------------------------------------------------
(* The values a variable group holds while another function is checked     *)

DistIdle ==
    dpc = "idle" /\ c1 = Coordinate(0, 0) /\ c2 = Coordinate(0, 0)
      /\ a = 0 /\ ret = 0

CoordIdle ==
    rpc = "idle" /\ file = <<>> /\ reader = 0 /\ rret = <<>> /\ rerr = "none"

CityIdle ==
    gpc = "idle" /\ lines = <<>> /\ gi = 0 /\ lookups = <<>>
      /\ printed = <<>> /\ gret = <<>>

WriteIdle ==
    wpc = "idle" /\ wi = 0 /\ closest_city = 0 /\ written = <<>>
      /\ werr = "none"

----------------------------------------------------------------------------
(* Coordinate.distance called on two points of a grid of whole degrees     *)

Latitudes  == {-30, 0, 1, 3, 30, 60}
Longitudes == {-30, 0, 1, 30, 180}
Points == {Coordinate(la, lo) : la \in Latitudes, lo \in Longitudes}

InitDistance ==
    /\ dpc = "call"
    /\ c1 \in Points
    /\ c2 \in Points
    /\ a = 0
    /\ ret = 0
    /\ coordinates = <<>>
    /\ cities = <<>>
    /\ CoordIdle /\ CityIdle /\ WriteIdle

\* lines 18-25
distance_call ==
    /\ dpc = "call"
    /\ LET r == distance(c1, c2)
       IN  /\ a' = r.a
           /\ ret' = r.value
           /\ dpc' = IF r.raised THEN "raised" ELSE "returned"
    /\ UNCHANGED <<c1, c2, coordinates, cities, coordVars, cityVars, writeVars>>

NextDistance == distance_call

SpecDistance == InitDistance /\ [][NextDistance]_vars

\* C5: Coordinate.distance raises nothing on any pair of points of the degree
\* range, returns a value >= 0, and its haversine term a lies in [0, 1].
C5_TotalNonNegative ==
    /\ dpc # "raised"
    /\ dpc = "returned" => (ret >= 0 /\ a >= 0 /\ a <= Scale)

\* C6: Coordinate.distance is symmetric: whenever distance(c1, c2) and
\* distance(c2, c1) both return, the results agree (here: within 20 metres,
\* far more than the claim's 1e-9 relative tolerance plus the rounding of the
\* fixed-point arithmetic).
C6_Symmetric ==
    (dpc = "returned" /\ ~ distance(c2, c1).raised)
        => Abs(distance(c2, c1).value - ret) <= 20

\* C7: the distance between two points that differ only in longitude is
\* strictly positive, and distance((0,0), (0,1)) is 111.19 km within 0.1 km.
C7_LongitudeOnly ==
    /\ (dpc = "returned" /\ c1.latitude = c2.latitude
          /\ c1.longitude # c2.longitude) => ret > 0
    /\ (dpc # "call" /\ c1 = Coordinate(0, 0) /\ c2 = Coordinate(0, 1))
          => (dpc = "returned" /\ ret >= 111090 /\ ret <= 111290)

\* C8: for every point p of the degree range, distance(p, p) returns exactly 0.
C8_SelfDistanceZero ==
    (dpc # "call" /\ c1 = c2) => (dpc = "returned" /\ ret = 0)

C8_Witness ==
    dpc = "returned" /\ c1 = c2 /\ c1.latitude < 0 /\ c1.longitude # 0

----------------------------------------------------------------------------
(* parse_coordinates: file holds the data rows csv.DictReader yields, each *)
(* a row with the text of its 'value' column; reader counts the rows       *)
(* consumed; rret holds the returned list once the function has returned.  *)

MaxRows == 4

RowTexts == { <<"0">>, <<"3", "0">>, <<"-", "3", "0">> }
Rows == {[value |-> t] : t \in RowTexts}

SeqsUpTo(S, n) == UNION {[1..k -> S] : k \in 0..n}

DigitValue(ch) ==
    CASE ch = "0" -> 0 [] ch = "1" -> 1 [] ch = "2" -> 2 [] ch = "3" -> 3
      [] ch = "4" -> 4 [] ch = "5" -> 5 [] ch = "6" -> 6 [] ch = "7" -> 7
      [] ch = "8" -> 8 [] ch = "9" -> 9

RECURSIVE DigitsValue(_, _)
DigitsValue(t, acc) ==
    IF t = <<>> THEN acc
    ELSE DigitsValue(Tail(t), 10 * acc + DigitValue(Head(t)))

\* float() on the decimal text of a whole number of degrees
float(t) ==
    IF Head(t) = "-" THEN - DigitsValue(Tail(t), 0) ELSE DigitsValue(t, 0)

\* the coordinate built with the two rows the other way round
RowPairSwapped(latitude, longitude) ==
    Coordinate(float(longitude.value), float(latitude.value))

\* lines 42-44: Coordinate(float(latitude['value']), float(longitude['value']))
RowPair(latitude, longitude) ==
    Coordinate(float(latitude.value), float(longitude.value))

InitCoordinates ==
    /\ rpc = "call"
    /\ file \in SeqsUpTo(Rows, MaxRows)
    /\ reader = 0
    /\ rret = <<>>
    /\ rerr = "none"
    /\ coordinates = <<>>
    /\ cities = <<>>
    /\ DistIdle /\ CityIdle /\ WriteIdle

\* lines 35-37
parse_coordinates_open ==
    /\ rpc = "call"
    /\ coordinates' = <<>>
    /\ reader' = 0
    /\ rpc' = "loop"
    /\ UNCHANGED <<file, rret, rerr, cities, distVars, cityVars, writeVars>>

\* lines 38-44: two more rows are there
parse_coordinates_pair ==
    /\ rpc = "loop"
    /\ reader + 2 <= Len(file)
    /\ coordinates' =
           Append(coordinates, RowPair(file[reader + 1], file[reader + 2]))
    /\ reader' = reader + 2
    /\ UNCHANGED <<rpc, file, rret, rerr, cities, distVars, cityVars, writeVars>>

\* lines 38-41: a latitude row with no longitude row after it
parse_coordinates_invalid ==
    /\ rpc = "loop"
    /\ reader + 1 = Len(file)
    /\ reader' = reader + 1
    /\ rerr' = "ValueError: Invalid coordinates file"
    /\ rpc' = "raised"
    /\ UNCHANGED <<coordinates, file, rret, cities,
                   distVars, cityVars, writeVars>>

\* lines 38, 45: the reader is exhausted
parse_coordinates_return ==
    /\ rpc = "loop"
    /\ reader = Len(file)
    /\ rret' = <<coordinates>>
    /\ rpc' = "returned"
    /\ UNCHANGED <<coordinates, file, reader, rerr, cities,
                   distVars, cityVars, writeVars>>

NextCoordinates ==
    \/ parse_coordinates_open
    \/ parse_coordinates_pair
    \/ parse_coordinates_invalid
    \/ parse_coordinates_return

SpecCoordinates == InitCoordinates /\ [][NextCoordinates]_vars

\* the coordinates of the rows of f taken two at a time
PairsOf(f) ==
    [j \in 1..(Len(f) \div 2) |->
        Coordinate(float(f[2 * j - 1].value), float(f[2 * j].value))]

\* C10: a file of 2k data rows makes parse_coordinates return exactly the k
\* coordinates (row 2j-1, row 2j) in file order; a file with an odd number of
\* data rows makes it raise ValueError('Invalid coordinates file') and return
\* no list, the pairs read before the dangling row included.
C10_PairsOrInvalid ==
    /\ rpc = "returned" =>
          (Len(file) % 2 = 0 /\ rret = <<PairsOf(file)>> /\ rerr = "none")
    /\ rpc = "raised" =>
          (/\ Len(file) % 2 = 1
           /\ rerr = "ValueError: Invalid coordinates file"
           /\ rret = <<>>)

C10_Witness ==
    /\ rpc = "raised"
    /\ Len(file) = 3
    /\ Len(coordinates) = 1
    /\ rret = <<>>

----------------------------------------------------------------------------
(* parse_cities: lines holds the lines of the file, the header first; gi   *)
(* counts the lines consumed; lookups records what geocode did for each    *)
(* place name, in order; printed is what went to standard output.          *)

MaxLines == 3

HeaderLine == <<"n", "a", "m", "e", "\n">>
LineTexts == { <<"B", "\n">>, <<" ", "O", " ", "\n">> }

IsSpace(ch) == ch \in {" ", "\n", "\t", "\r"}

RECURSIVE lstrip(_)
lstrip(t) ==
    IF t # <<>> /\ IsSpace(Head(t)) THEN lstrip(Tail(t)) ELSE t

RECURSIVE rstrip(_)
rstrip(t) ==
    IF t # <<>> /\ IsSpace(t[Len(t)])
    THEN rstrip(SubSeq(t, 1, Len(t) - 1)) ELSE t

\* str.strip
strip(t) == rstrip(lstrip(t))

\* What geocoder.arcgis(...).json can be: None, or a dict (a set of
\* <<key, value>> pairs) holding the keys the provider filled in.
Dict(pairs) == [none |-> FALSE, dict |-> pairs]
None == [none |-> TRUE, dict |-> {}]

Jsons ==
    { None,
      Dict({}),
      Dict({<<"lat", 50>>}),
      Dict({<<"lng", 14>>}),
      Dict({<<"lat", 50>>, <<"lng", 14>>}),
      Dict({<<"lat", -30>>, <<"lng", 30>>}) }

\* geocode either raises (the request fails) or returns geo.json
GeoOutcomes ==
    {[raised |-> TRUE, json |-> None]}
        \cup {[raised |-> FALSE, json |-> j] : j \in Jsons}

\* geo[key] raises TypeError on None and KeyError on a missing key
HasItem(json, key) == ~ json.none /\ \E kv \in json.dict : kv[1] = key
Item(json, key) == (CHOOSE kv \in json.dict : kv[1] = key)[2]

\* lines 55-56: the try block raises
TryRaises(o) ==
    o.raised \/ ~ HasItem(o.json, "lat") \/ ~ HasItem(o.json, "lng")

InitCities ==
    /\ gpc = "call"
    /\ \E body \in SeqsUpTo(LineTexts, MaxLines) : lines = <<HeaderLine>> \o body
    /\ gi = 0
    /\ lookups = <<>>
    /\ printed = <<>>
    /\ gret = <<>>
    /\ coordinates = <<>>
    /\ cities = <<>>
    /\ DistIdle /\ CoordIdle /\ WriteIdle

\* lines 49-51: the header line is skipped
parse_cities_open ==
    /\ gpc = "call"
    /\ cities' = <<>>
    /\ gi' = 1
    /\ gpc' = "loop"
    /\ UNCHANGED <<lines, lookups, printed, gret, coordinates,
                   distVars, coordVars, writeVars>>

\* lines 52-56: the lookup of the next line gives a latitude and a longitude
parse_cities_append ==
    /\ gpc = "loop"
    /\ gi < Len(lines)
    /\ \E o \in GeoOutcomes :
          /\ ~ TryRaises(o)
          /\ cities' = Append(cities, City(strip(lines[gi + 1]),
                                           Item(o.json, "lat"),
                                           Item(o.json, "lng")))
          /\ lookups' = Append(lookups, o)
    /\ gi' = gi + 1
    /\ UNCHANGED <<gpc, lines, printed, gret, coordinates,
                   distVars, coordVars, writeVars>>

\* the except branch leaving the loop instead of going on
parse_cities_except_break ==
    /\ gpc = "loop"
    /\ gi < Len(lines)
    /\ \E o \in GeoOutcomes :
          /\ TryRaises(o)
          /\ lookups' = Append(lookups, o)
    /\ printed' = Append(printed,
                         <<"Failed to find location of:", strip(lines[gi + 1])>>)
    /\ gi' = gi + 1
    /\ gret' = <<cities>>
    /\ gpc' = "returned"
    /\ UNCHANGED <<cities, lines, coordinates,
                   distVars, coordVars, writeVars>>

\* lines 52-58: the try block raises, the name is printed and left out
parse_cities_except ==
    /\ gpc = "loop"
    /\ gi < Len(lines)
    /\ \E o \in GeoOutcomes :
          /\ TryRaises(o)
          /\ lookups' = Append(lookups, o)
    /\ printed' = Append(printed,
                         <<"Failed to find location of:", strip(lines[gi + 1])>>)
    /\ gi' = gi + 1
    /\ UNCHANGED <<gpc, cities, lines, gret, coordinates,
                   distVars, coordVars, writeVars>>

\* line 59
parse_cities_return ==
    /\ gpc = "loop"
    /\ gi = Len(lines)
    /\ gret' = <<cities>>
    /\ gpc' = "returned"
    /\ UNCHANGED <<cities, lines, gi, lookups, printed, coordinates,
                   distVars, coordVars, writeVars>>

NextCities ==
    \/ parse_cities_open
    \/ parse_cities_append
    \/ parse_cities_except
    \/ parse_cities_return

SpecCities == InitCities /\ [][NextCities]_vars

\* a lookup succeeded: the service answered with a latitude and a longitude
LookupSucceeded(o) ==
    /\ ~ o.raised
    /\ ~ o.json.none
    /\ {"lat", "lng"} \subseteq {kv[1] : kv \in o.json.dict}

\* the cities of the first k place names whose lookup succeeded, in file order
RECURSIVE ResolvedCities(_)
ResolvedCities(k) ==
    IF k = 0 THEN <<>>
    ELSE IF LookupSucceeded(lookups[k])
         THEN Append(ResolvedCities(k - 1),
                     City(strip(lines[k + 1]),
                          Item(lookups[k].json, "lat"),
                          Item(lookups[k].json, "lng")))
         ELSE ResolvedCities(k - 1)

\* C9: parse_cities leaves out every place name whose lookup fails and goes
\* on: the list holds exactly the names whose lookup succeeded, in file
\* order, each with the latitude and longitude of its own lookup; every line
\* after the header is looked up before the list is returned.
C9_FailedLookupsOmitted ==
    /\ gpc \in {"loop", "returned"} =>
          (Len(lookups) = gi - 1 /\ cities = ResolvedCities(Len(lookups)))
    /\ gpc = "returned" =>
          (/\ Len(lookups) = Len(lines) - 1
           /\ gret = <<ResolvedCities(Len(lines) - 1)>>)

C9_Witness ==
    /\ gpc = "returned"
    /\ Len(lookups) = 3
    /\ LookupSucceeded(lookups[1])
    /\ ~ LookupSucceeded(lookups[2])
    /\ LookupSucceeded(lookups[3])
    /\ Len(gret[1]) = 2

----------------------------------------------------------------------------
(* write_closest_cities: coordinates and cities are its two arguments; wi  *)
(* counts the coordinates handled; closest_city is the position in cities  *)
(* of the city min() returned last (0 before the first); written holds the *)
(* rows given to the csv writer, the header row first.                     *)

MaxQueries == 2
MaxCities == 2

QueryPoints == { Coordinate(1, 0), Coordinate(-30, 0) }
CityPoints ==
    { Coordinate(0, 30), Coordinate(0, -30), Coordinate(3, 0),
      Coordinate(-30, 30) }
CityNames == { "Praha", "Brno" }
Cities == {City(n, p.latitude, p.longitude) : n \in CityNames, p \in CityPoints}

HeaderRow == <<"longitude", "longtitude", "city">>

\* Coordinate.distance on the points this pass meets, computed once
MatchPoints == QueryPoints \cup CityPoints
DistanceTable ==
    [p1 \in MatchPoints |-> [p2 \in MatchPoints |-> distance(p1, p2)]]

\* Coordinate.distance(p1, p2) for coordinates or cities of the pass
Distance(p1, p2) ==
    DistanceTable[Coordinate(p1.latitude, p1.longitude)]
                 [Coordinate(p2.latitude, p2.longitude)]

\* a comparison that lets a later equal key replace the best one
KeyLessOrEqual(x, y) == x <= y

\* lines 93-95: min() replaces its best item only by one with a smaller key
KeyLess(x, y) == x < y

\* lines 93-95: min() over cs[i..] with key distance(city, coordinate); best
\* is the position of the best item so far (0: none yet), bestKey its key
RECURSIVE MinScan(_, _, _, _, _)
MinScan(cs, coordinate, i, best, bestKey) ==
    IF i > Len(cs)
    THEN [raised |-> FALSE, error |-> "none", index |-> best]
    ELSE LET key == Distance(cs[i], coordinate)
         IN  IF key.raised
             THEN [raised |-> TRUE, error |-> "ValueError: math domain error",
                   index |-> 0]
             ELSE IF best = 0 \/ KeyLess(key.value, bestKey)
                  THEN MinScan(cs, coordinate, i + 1, i, key.value)
                  ELSE MinScan(cs, coordinate, i + 1, best, bestKey)

\* lines 93-95: closest_city = min(cities, key=...)
min(cs, coordinate) ==
    IF cs = <<>>
    THEN [raised |-> TRUE,
          error |-> "ValueError: min() arg is an empty sequence", index |-> 0]
    ELSE MinScan(cs, coordinate, 1, 0, 0)

InitWrite ==
    /\ wpc = "call"
    /\ coordinates \in SeqsUpTo(QueryPoints, MaxQueries)
    /\ cities \in SeqsUpTo(Cities, MaxCities)
    /\ wi = 0
    /\ closest_city = 0
    /\ written = <<>>
    /\ werr = "none"
    /\ DistIdle /\ CoordIdle /\ CityIdle

\* lines 89-91
write_closest_cities_open ==
    /\ wpc = "call"
    /\ written' = <<HeaderRow>>
    /\ wpc' = "loop"
    /\ UNCHANGED <<wi, closest_city, werr, coordinates, cities,
                   distVars, coordVars, cityVars>>

\* lines 92-102: min() returns a city and its row is written
write_closest_cities_row ==
    /\ wpc = "loop"
    /\ wi < Len(coordinates)
    /\ LET coordinate == coordinates[wi + 1]
           m == min(cities, coordinate)
       IN  /\ ~ m.raised
           /\ closest_city' = m.index
           /\ written' = Append(written, <<coordinate.latitude,
                                           coordinate.longitude,
                                           cities[m.index].name>>)
    /\ wi' = wi + 1
    /\ UNCHANGED <<wpc, werr, coordinates, cities,
                   distVars, coordVars, cityVars>>

\* the exception of min() swallowed and the coordinate passed over
write_closest_cities_skip ==
    /\ wpc = "loop"
    /\ wi < Len(coordinates)
    /\ min(cities, coordinates[wi + 1]).raised
    /\ wi' = wi + 1
    /\ UNCHANGED <<wpc, werr, closest_city, written, coordinates, cities,
                   distVars, coordVars, cityVars>>

\* lines 92-95: min() raises and the exception leaves the function
write_closest_cities_raise ==
    /\ wpc = "loop"
    /\ wi < Len(coordinates)
    /\ LET m == min(cities, coordinates[wi + 1])
       IN  /\ m.raised
           /\ werr' = m.error
    /\ wpc' = "raised"
    /\ UNCHANGED <<wi, closest_city, written, coordinates, cities,
                   distVars, coordVars, cityVars>>

\* line 92: the loop is over
write_closest_cities_return ==
    /\ wpc = "loop"
    /\ wi = Len(coordinates)
    /\ wpc' = "returned"
    /\ UNCHANGED <<wi, closest_city, written, werr, coordinates, cities,
                   distVars, coordVars, cityVars>>

NextWrite ==
    \/ write_closest_cities_open
    \/ write_closest_cities_row
    \/ write_closest_cities_raise
    \/ write_closest_cities_return

SpecWrite == InitWrite /\ [][NextWrite]_vars

\* the coordinate whose row was written last, and the city chosen for it
LastQuery == coordinates[wi]
Chosen == cities[closest_city]

\* C1: the city chosen for a query is one of the candidates and no other
\* candidate has a strictly smaller distance(query, candidate) (here: smaller
\* by more than 20 metres, with both distances defined).
C1_MinimizesQueryDistance ==
    wi >= 1 =>
        /\ closest_city \in 1..Len(cities)
        /\ \A j \in 1..Len(cities) :
              (~ Distance(LastQuery, cities[j]).raised
                 /\ ~ Distance(LastQuery, Chosen).raised)
              => ~ (Distance(LastQuery, cities[j]).value + 20
                      < Distance(LastQuery, Chosen).value)

\* the key min() compares, and the candidates whose key is the smallest
KeyOf(j) == Distance(cities[j], LastQuery).value
Nearest ==
    {j \in 1..Len(cities) : \A i \in 1..Len(cities) : KeyOf(j) <= KeyOf(i)}

C3_EmptyCandidatesRaise ==
    /\ [] ((cities = <<>> /\ coordinates # <<>>) =>
              /\ wpc # "returned"
              /\ wi = 0
              /\ closest_city = 0
              /\ Len(written) <= 1
              /\ wpc = "raised" =>
                    werr = "ValueError: min() arg is an empty sequence")
    /\ [][(wpc = "loop" /\ cities = <<>> /\ coordinates # <<>>)
              => wpc' = "raised"]_vars

C3_Witness ==
    /\ wpc = "raised"
    /\ cities = <<>>
    /\ Len(coordinates) = 2
    /\ written = <<HeaderRow>>

\* C4: against a non-empty candidate sequence the pass never raises and, when
\* it returns, has written exactly one row per query, in query order, the
\* i-th carrying the latitude and longitude of the i-th query and the name of
\* the city matched for it.
C4_OneRowPerQuery ==
    cities # <<>> =>
        /\ wpc # "raised"
        /\ wpc = "returned" =>
              /\ Len(written) = Len(coordinates) + 1
              /\ \A i \in 1..Len(coordinates) :
                    /\ written[i + 1][1] = coordinates[i].latitude
                    /\ written[i + 1][2] = coordinates[i].longitude
                    /\ written[i + 1][3]
                         = cities[min(cities, coordinates[i]).index].name

====
